---------------------------- MODULE Spec2Model ----------------------------
(* The build command of cli/src/cmd/build.rs: BuildArgs::run and           *)
(* Project::try_from (root selection, remapping collection, sort + dedup,  *)
(* descriptor assembly, forced cleanup), EvmVersion::from_str with its two *)
(* backend tables, and Env::sputnik_state / Env::evmodin_state.            *)
EXTENDS Integers, Sequences, FiniteSets, TLC

VARIABLES
    pc,          \* position of BuildArgs::run / Project::try_from
    opts,        \* the BuildArgs handed to run (immutable)
    root,        \* `root` of try_from, the empty path until it is set
    lib_paths,   \* `lib_paths` of try_from
    libIdx,      \* how many library paths find_many has scanned
    remappings,  \* `remappings` of try_from
    remappings_txt, \* the read of root/remappings.txt, until it is parsed
    project,     \* the Project built by try_from, NoValue until built
    run_project, \* `project` of run: what try_from returned to it
    output,      \* `output` of run: what compile returned
    stdout,      \* the lines run has printed
    result,      \* what run has returned: NoValue, Ok(..), Err(..), Panic(..)
    calls,       \* the external operations performed so far, in order
    disk,        \* cache and artifacts on disk: "intact", "deleted", "partial"
    token,       \* the text given to EvmVersion::from_str
    version,     \* the result of EvmVersion::from_str
    cfg,         \* the backend token of sputnik_cfg / evmodin_cfg
    env,         \* the Env record
    snapshot     \* the result of sputnik_state / evmodin_state

buildVars == <<pc, opts, root, lib_paths, libIdx, remappings, remappings_txt, project,
              run_project, output, stdout, result, calls, disk>>
versionVars == <<token, version, cfg>>
envVars == <<env, snapshot>>
vars == <<buildVars, versionVars, envVars>>

NoValue == [tag |-> "None"]
Some(x) == [tag |-> "Some", val |-> x]
Ok(x) == [tag |-> "Ok", val |-> x]
Err(k, x) == [tag |-> "Err", kind |-> k, val |-> x]
Panic(k, x) == [tag |-> "Panic", kind |-> k, val |-> x]

(***************************************************************************)
(* Text: a string is a sequence of one-character strings.                  *)
(***************************************************************************)
LowerLetters == <<"a","b","c","d","e","f","g","h","i","j","k","l","m",
                  "n","o","p","q","r","s","t","u","v","w","x","y","z">>
UpperLetters == <<"A","B","C","D","E","F","G","H","I","J","K","L","M",
                  "N","O","P","Q","R","S","T","U","V","W","X","Y","Z">>

\* char::to_lowercase on the characters the model draws (ASCII)
ToLowerChar(c) ==
    IF \E i \in DOMAIN UpperLetters : UpperLetters[i] = c
    THEN LowerLetters[CHOOSE i \in DOMAIN UpperLetters : UpperLetters[i] = c]
    ELSE c

ToUpperChar(c) ==
    IF \E i \in DOMAIN LowerLetters : LowerLetters[i] = c
    THEN UpperLetters[CHOOSE i \in DOMAIN LowerLetters : LowerLetters[i] = c]
    ELSE c

\* str::to_lowercase
to_lowercase(s) == [i \in DOMAIN s |-> ToLowerChar(s[i])]

(***************************************************************************)
(* EvmVersion                                                              *)
(***************************************************************************)
EvmVersions == {"Frontier", "Istanbul", "Berlin", "London"}

W_frontier == <<"f","r","o","n","t","i","e","r">>
W_istanbul == <<"i","s","t","a","n","b","u","l">>
W_berlin == <<"b","e","r","l","i","n">>
W_london == <<"l","o","n","d","o","n">>

UnsupportedMsg == "unsupported evm version: {}"

\* from_str without the to_lowercase of line 231
FromStrExact(s) ==
    CASE s = W_frontier -> Ok("Frontier")
      [] s = W_istanbul -> Ok("Istanbul")
      [] s = W_berlin -> Ok("Berlin")
      [] s = W_london -> Ok("London")
      [] OTHER -> Err(UnsupportedMsg, s)

EvmVersion_from_str(s) ==
    LET l == to_lowercase(s) IN
    CASE l = W_frontier -> Ok("Frontier")
      [] l = W_istanbul -> Ok("Istanbul")
      [] l = W_berlin -> Ok("Berlin")
      [] l = W_london -> Ok("London")
      [] OTHER -> Err(UnsupportedMsg, s)

sputnik_cfg(v) ==
    CASE v = "Frontier" -> "Config::frontier"
      [] v = "Istanbul" -> "Config::istanbul"
      [] v = "Berlin" -> "Config::berlin"
      [] v = "London" -> "Config::london"

evmodin_cfg(v) ==
    CASE v = "Frontier" -> "Revision::Frontier"
      [] v = "Istanbul" -> "Revision::Istanbul"
      [] v = "Berlin" -> "Revision::Berlin"
      [] v = "London" -> "Revision::London"

\* the words the tokens are spelled from, in every mix of letter case
Words == {W_frontier, W_istanbul, W_berlin, W_london,
          <<"p","a","r","i","s">>, <<>>, <<"l","o","n","d","o">>,
          <<"l","o","n","d","o","n","s">>, <<"l","0","n","d","o","n">>,
          <<" ","b","e","r","l","i","n">>}

Cased(w, m) == [i \in DOMAIN w |-> IF i \in m THEN ToUpperChar(w[i]) ELSE w[i]]
CaseVariants(w) == {Cased(w, m) : m \in SUBSET (DOMAIN w)}
Tokens == UNION {CaseVariants(w) : w \in Words}

\* two tokens that differ only in letter case
SameUpToCase(s, t) ==
    /\ Len(s) = Len(t)
    /\ \A i \in DOMAIN s : s[i] = t[i] \/ ToUpperChar(s[i]) = t[i] \/ s[i] = ToUpperChar(t[i])

BuildIdle ==
    /\ pc = "idle" /\ opts = NoValue /\ root = <<>> /\ lib_paths = <<>>
    /\ libIdx = 0 /\ remappings = <<>> /\ remappings_txt = NoValue
    /\ project = NoValue /\ run_project = NoValue /\ output = NoValue
    /\ stdout = <<>> /\ result = NoValue
    /\ calls = <<>> /\ disk = "intact"
VersionIdle == token = <<>> /\ version = NoValue /\ cfg = NoValue
EnvIdle == env = NoValue /\ snapshot = NoValue

InitVersion ==
    /\ token \in Tokens
    /\ version = NoValue
    /\ cfg = NoValue
    /\ BuildIdle /\ EnvIdle

FromStr ==
    /\ version = NoValue
    /\ version' = EvmVersion_from_str(token)
    /\ UNCHANGED <<token, cfg, buildVars, envVars>>

SputnikCfg ==
    /\ version.tag = "Ok" /\ cfg = NoValue
    /\ cfg' = Some(sputnik_cfg(version.val))
    /\ UNCHANGED <<token, version, buildVars, envVars>>

EvmodinCfg ==
    /\ version.tag = "Ok" /\ cfg = NoValue
    /\ cfg' = Some(evmodin_cfg(version.val))
    /\ UNCHANGED <<token, version, buildVars, envVars>>

NextVersion == FromStr \/ SputnikCfg \/ EvmodinCfg

SpecVersion == InitVersion /\ [][NextVersion]_vars

\* C5: parsing an EVM version token is case-insensitive and total: a token
\* spelled, in any letter case, as frontier, istanbul, berlin or london parses
\* to that version, every other token fails with the unsupported-version
\* error carrying the token as given, and tokens that differ only in letter
\* case have the same outcome.
VersionNames == {<<W_frontier, "Frontier">>, <<W_istanbul, "Istanbul">>,
                 <<W_berlin, "Berlin">>, <<W_london, "London">>}
Outcome(r) == IF r.tag = "Ok" THEN r ELSE [tag |-> r.tag, kind |-> r.kind]
C5_FromStrCaseInsensitive ==
    version # NoValue =>
        /\ \A n \in VersionNames : SameUpToCase(token, n[1]) => version = Ok(n[2])
        /\ (\A n \in VersionNames : ~SameUpToCase(token, n[1]))
              => version = Err(UnsupportedMsg, token)
        /\ \A t \in Tokens :
              SameUpToCase(token, t) => Outcome(EvmVersion_from_str(t)) = Outcome(version)
C5_Witness ==
    /\ version = Ok("London") /\ token # W_london
    /\ cfg \in {Some("Config::london"), Some("Revision::London")}

(***************************************************************************)
(* Env                                                                     *)
(***************************************************************************)
MaxFieldValue == 1
U64 == 0..MaxFieldValue
Addresses == {"0x00", "0xaa"}
ZeroAddress == "0x00"

Envs ==
    [gas_limit : U64, chain_id : U64, gas_price : U64,
     block_base_fee_per_gas : U64, tx_origin : Addresses,
     block_coinbase : Addresses, block_timestamp : U64,
     block_number : U64, block_difficulty : U64,
     block_gas_limit : {NoValue} \cup {Some(x) : x \in U64}]

\* Option::unwrap_or
unwrap_or(o, d) == IF o.tag = "Some" THEN o.val ELSE d

SputnikStateNoOverride(e) ==
    [chain_id |-> e.chain_id,
     gas_price |-> e.gas_price,
     origin |-> e.tx_origin,
     block_coinbase |-> e.block_coinbase,
     block_number |-> e.block_number,
     block_timestamp |-> e.block_timestamp,
     block_difficulty |-> e.block_difficulty,
     block_base_fee_per_gas |-> e.block_base_fee_per_gas,
     block_gas_limit |-> e.gas_limit,
     block_hashes |-> <<>>]

sputnik_state(e) ==
    [chain_id |-> e.chain_id,
     gas_price |-> e.gas_price,
     origin |-> e.tx_origin,
     block_coinbase |-> e.block_coinbase,
     block_number |-> e.block_number,
     block_timestamp |-> e.block_timestamp,
     block_difficulty |-> e.block_difficulty,
     block_base_fee_per_gas |-> e.block_base_fee_per_gas,
     block_gas_limit |-> unwrap_or(e.block_gas_limit, e.gas_limit),
     block_hashes |-> <<>>]

\* MockedHost::default(): a zeroed transaction context
MockedHostDefault ==
    [tx_context |->
        [tx_gas_price |-> 0, tx_origin |-> ZeroAddress,
         block_coinbase |-> ZeroAddress, block_number |-> 0,
         block_timestamp |-> 0, block_gas_limit |-> 0,
         block_difficulty |-> 0, chain_id |-> 0, block_base_fee |-> 0]]

evmodin_state(e) ==
    [MockedHostDefault EXCEPT
        !.tx_context.chain_id = e.chain_id,
        !.tx_context.tx_gas_price = e.gas_price,
        !.tx_context.tx_origin = e.tx_origin,
        !.tx_context.block_coinbase = e.block_coinbase,
        !.tx_context.block_number = e.block_number,
        !.tx_context.block_timestamp = e.block_timestamp,
        !.tx_context.block_difficulty = e.block_difficulty,
        !.tx_context.block_gas_limit = unwrap_or(e.block_gas_limit, e.gas_limit)]

InitEnv ==
    /\ env \in Envs
    /\ snapshot = NoValue
    /\ BuildIdle /\ VersionIdle

SputnikState ==
    /\ snapshot = NoValue
    /\ snapshot' = [backend |-> "sputnik", state |-> sputnik_state(env)]
    /\ UNCHANGED <<env, buildVars, versionVars>>

EvmodinState ==
    /\ snapshot = NoValue
    /\ snapshot' = [backend |-> "evmodin", state |-> evmodin_state(env)]
    /\ UNCHANGED <<env, buildVars, versionVars>>

NextEnv == SputnikState \/ EvmodinState

SpecEnv == InitEnv /\ [][NextEnv]_vars

\* the block gas limit a snapshot reports
SnapshotBlockGasLimit ==
    IF snapshot.backend = "sputnik" THEN snapshot.state.block_gas_limit
    ELSE snapshot.state.tx_context.block_gas_limit

\* C4: in both backend snapshots the block gas limit is the general gas limit
\* when the block-gas-limit override is absent and the override when present.
C4_BlockGasLimitDefault ==
    snapshot # NoValue =>
        /\ env.block_gas_limit = NoValue => SnapshotBlockGasLimit = env.gas_limit
        /\ env.block_gas_limit # NoValue => SnapshotBlockGasLimit = env.block_gas_limit.val
C4_Witness ==
    /\ snapshot # NoValue /\ snapshot.backend = "evmodin"
    /\ env.block_gas_limit = NoValue /\ env.gas_limit = 1
    /\ snapshot.state.tx_context.block_gas_limit = 1

\* C8: every field of either snapshot equals the Env field it restates, and
\* the block-hash list is empty.
C8_ProjectionExact ==
    snapshot # NoValue =>
        IF snapshot.backend = "sputnik"
        THEN LET s == snapshot.state IN
             /\ s.chain_id = env.chain_id
             /\ s.gas_price = env.gas_price
             /\ s.origin = env.tx_origin
             /\ s.block_coinbase = env.block_coinbase
             /\ s.block_number = env.block_number
             /\ s.block_timestamp = env.block_timestamp
             /\ s.block_difficulty = env.block_difficulty
             /\ s.block_base_fee_per_gas = env.block_base_fee_per_gas
             /\ s.block_gas_limit = unwrap_or(env.block_gas_limit, env.gas_limit)
             /\ s.block_hashes = <<>>
        ELSE LET t == snapshot.state.tx_context IN
             /\ t.chain_id = env.chain_id
             /\ t.tx_gas_price = env.gas_price
             /\ t.tx_origin = env.tx_origin
             /\ t.block_coinbase = env.block_coinbase
             /\ t.block_number = env.block_number
             /\ t.block_timestamp = env.block_timestamp
             /\ t.block_difficulty = env.block_difficulty
             /\ t.block_base_fee = env.block_base_fee_per_gas
             /\ t.block_gas_limit = unwrap_or(env.block_gas_limit, env.gas_limit)

(***************************************************************************)
(* Remappings                                                              *)
(***************************************************************************)
Remapping(n, p) == [name |-> n, path |-> p]
R_aa == Remapping(<<"a">>, <<"a">>)
R_ab == Remapping(<<"a">>, <<"b">>)
R_ba == Remapping(<<"b">>, <<"a">>)

\* the code points of the characters remapping text is drawn from
CharCode(c) ==
    CASE c = "\n" -> 10
      [] c = "=" -> 61
      [] c = "a" -> 97
      [] c = "b" -> 98

\* String's Ord: lexicographic by character
RECURSIVE StrLess(_, _)
StrLess(s, t) ==
    IF t = <<>> THEN FALSE
    ELSE IF s = <<>> THEN TRUE
    ELSE IF s[1] = t[1] THEN StrLess(Tail(s), Tail(t))
    ELSE CharCode(s[1]) < CharCode(t[1])

\* Remapping's derived Ord: by name, then by path
RemappingLess(x, y) ==
    \/ StrLess(x.name, y.name)
    \/ x.name = y.name /\ StrLess(x.path, y.path)

\* the index of the first c in s, 0 when there is none
RECURSIVE IndexOf(_, _)
IndexOf(s, c) ==
    IF s = <<>> THEN 0
    ELSE IF s[1] = c THEN 1
    ELSE LET i == IndexOf(Tail(s), c) IN IF i = 0 THEN 0 ELSE i + 1

\* Remapping::from_str on a line `alias=path`; a line without `=` is an error
Remapping_from_str(x) ==
    LET i == IndexOf(x, "=") IN
    IF i = 0 THEN Err("RemappingError", x)
    ELSE Ok(Remapping(SubSeq(x, 1, i - 1), SubSeq(x, i + 1, Len(x))))

\* str::split('\n'): the pieces between the newlines, empty pieces kept
RECURSIVE split_newline(_)
split_newline(text) ==
    LET i == IndexOf(text, "\n") IN
    IF i = 0 THEN <<text>>
    ELSE <<SubSeq(text, 1, i - 1)>> \o split_newline(SubSeq(text, i + 1, Len(text)))

\* the closure of line 132 without its filter
KeepEveryLine(x) == TRUE

\* the closure of line 132: filter(|x| !x.is_empty())
KeepLine(x) == x # <<>>

\* the message of the panic of line 134
ParseMsg == "could not parse remapping: {}"

RECURSIVE ParseLines(_)
ParseLines(lines) ==
    IF lines = <<>> THEN Ok(<<>>)
    ELSE IF ~KeepLine(lines[1]) THEN ParseLines(Tail(lines))
    ELSE LET r == Remapping_from_str(lines[1]) IN
         IF r.tag = "Err" THEN Panic(ParseMsg, lines[1])
         ELSE LET rest == ParseLines(Tail(lines)) IN
              IF rest.tag = "Panic" THEN rest ELSE Ok(<<r.val>> \o rest.val)

\* the panic of the last line not parsed, not of the first
RemappingsLastError(text) ==
    LET ls == split_newline(text)
        fwd == ParseLines(ls)
        rev == ParseLines([i \in DOMAIN ls |-> ls[Len(ls) + 1 - i]])
    IN IF fwd.tag = "Panic" THEN rev ELSE fwd

\* the helper of lines 131-136, consumed by Vec::extend: the remappings of
\* the non-empty lines in order, or the panic of the first line not parsed
remappings_from_newline(text) == ParseLines(split_newline(text))

\* x placed into the ascending sequence s
RECURSIVE InsertSorted(_, _)
InsertSorted(x, s) ==
    IF s = <<>> THEN <<x>>
    ELSE IF RemappingLess(s[1], x) THEN <<s[1]>> \o InsertSorted(x, Tail(s))
    ELSE <<x>> \o s

RECURSIVE SortAscending(_)
SortAscending(s) ==
    IF s = <<>> THEN <<>> ELSE InsertSorted(s[1], SortAscending(Tail(s)))

\* line 139 left out
SortSkipped(s) == s

\* Vec::sort_unstable of line 139
sort_unstable(s) == SortAscending(s)

RECURSIVE DropAdjacentEqual(_)
DropAdjacentEqual(s) ==
    IF Len(s) < 2 THEN s
    ELSE IF s[1] = s[2] THEN DropAdjacentEqual(Tail(s))
    ELSE <<s[1]>> \o DropAdjacentEqual(Tail(s))

\* line 140 left out
DedupSkipped(s) == s

\* Vec::dedup of line 140
dedup(s) == DropAdjacentEqual(s)

(***************************************************************************)
(* The inputs of a build                                                   *)
(***************************************************************************)
MaxLines == 2

RECURSIVE JoinLines(_)
JoinLines(ls) ==
    IF Len(ls) = 1 THEN ls[1] ELSE ls[1] \o <<"\n">> \o JoinLines(Tail(ls))

TextsOf(lines) ==
    {JoinLines(ls) : ls \in UNION {[1..n -> lines] : n \in 1..MaxLines}}

\* DAPP_REMAPPINGS: empty lines, a good line and two lines without `=`
EnvTexts == TextsOf({<<>>, <<"a","=","b">>, <<"a">>, <<"b">>})
\* remappings.txt
TxtTexts == TextsOf({<<>>, <<"a","=","b">>, <<"b">>})

GivenRoot == <<"given">>
GitRoot == <<"repo">>
Cwd == <<"cwd">>
join(p, c) == p \o <<c>>

ArgLists == {<<>>, <<R_ba>>, <<R_ab, R_aa>>}
LibPathLists == {<<>>, << <<"l1">>, <<"l2">> >>}
FoundLists == {<<>>, <<R_aa>>, <<R_ba, R_aa>>}
Layouts == {[contracts |-> NoValue, out_path |-> NoValue, no_auto_detect |-> FALSE],
            [contracts |-> Some("contracts"), out_path |-> Some("artifacts"),
             no_auto_detect |-> TRUE]}

BuildArgs ==
    {[root |-> r, contracts |-> l.contracts, remappings |-> a, remappings_env |-> e,
      lib_paths |-> lp, out_path |-> l.out_path, no_auto_detect |-> l.no_auto_detect,
      force |-> f] :
        r \in {NoValue, Some(GivenRoot)}, l \in Layouts, a \in ArgLists,
        e \in {NoValue} \cup {Some(t) : t \in EnvTexts},
        lp \in LibPathLists, f \in BOOLEAN}

(***************************************************************************)
(* BuildArgs::run and Project::try_from                                    *)
(***************************************************************************)
Init ==
    /\ pc = "set_root"
    /\ opts \in BuildArgs
    /\ root = <<>>
    /\ lib_paths = <<>>
    /\ libIdx = 0
    /\ remappings = <<>>
    /\ remappings_txt = NoValue
    /\ project = NoValue
    /\ run_project = NoValue
    /\ output = NoValue
    /\ stdout = <<>>
    /\ result = NoValue
    /\ calls = <<>>
    /\ disk = "intact"
    /\ VersionIdle /\ EnvIdle

Call(name, outcome) == calls' = Append(calls, <<name, outcome>>)
Called(name) == \E i \in DOMAIN calls : calls[i][1] = name
CalledWith(name, outcome) == \E i \in DOMAIN calls : calls[i] = <<name, outcome>>

\* run returns r: an error of try_from or compile through `?`, or a panic
Abort(r) == pc' = "aborted" /\ result' = r

\* the git root preferred to the root given
RootGitFirst(given, git, cwd) ==
    IF git.tag = "Ok" THEN git.val
    ELSE IF given.tag = "Some" THEN given.val ELSE cwd.val

\* lines 89-91: opts.root, else the git root, else the current directory
RootOrDefault(given, git, cwd) ==
    IF given.tag = "Some" THEN given.val
    ELSE IF git.tag = "Ok" THEN git.val ELSE cwd.val

\* lines 89-91; the closures of unwrap_or_else run only when they are needed
SetRoot ==
    /\ pc = "set_root"
    /\ \E git \in {Ok(GitRoot), Err("git", <<"no git root">>)},
          cwd \in {Ok(Cwd), Err("io", <<"current_dir">>)} :
          /\ \/ /\ opts.root.tag = "Some"
                /\ UNCHANGED calls
                /\ root' = RootOrDefault(opts.root, git, cwd)
                /\ pc' = "canonicalize" /\ UNCHANGED result
             \/ /\ opts.root.tag = "None" /\ git.tag = "Ok"
                /\ Call("find_git_root_path", "ok")
                /\ root' = RootOrDefault(opts.root, git, cwd)
                /\ pc' = "canonicalize" /\ UNCHANGED result
             \/ /\ opts.root.tag = "None" /\ git.tag = "Err" /\ cwd.tag = "Ok"
                /\ calls' = calls \o << <<"find_git_root_path", "err">>, <<"current_dir", "ok">> >>
                /\ root' = RootOrDefault(opts.root, git, cwd)
                /\ pc' = "canonicalize" /\ UNCHANGED result
             \/ /\ opts.root.tag = "None" /\ git.tag = "Err" /\ cwd.tag = "Err"
                /\ calls' = calls \o << <<"find_git_root_path", "err">>, <<"current_dir", "err">> >>
                /\ Abort(Panic("unwrap", <<"current_dir">>))
                /\ UNCHANGED root
    /\ UNCHANGED <<opts, lib_paths, libIdx, remappings, remappings_txt, project,
                   run_project, output, stdout, disk, versionVars, envVars>>

\* std::fs::canonicalize: an absolute path without symlinks
canonical(p) == <<"/">> \o p

\* line 92
Canonicalize ==
    /\ pc = "canonicalize"
    /\ \E ok \in BOOLEAN :
          IF ok
          THEN /\ Call("canonicalize", "ok")
               /\ root' = canonical(root)
               /\ pc' = "set_dirs" /\ UNCHANGED result
          ELSE /\ Call("canonicalize", "err")
               /\ Abort(Err("io", <<"canonicalize">>))
               /\ UNCHANGED root
    /\ UNCHANGED <<opts, lib_paths, libIdx, remappings, remappings_txt, project,
                   run_project, output, stdout, disk, versionVars, envVars>>

\* lines 95-99
contracts_dir(o, r) == IF o.contracts.tag = "Some" THEN join(r, o.contracts.val) ELSE join(r, "src")
\* lines 102-106
artifacts_dir(o, r) == IF o.out_path.tag = "Some" THEN join(r, o.out_path.val) ELSE join(r, "out")
\* lines 110-111
lib_paths_of(o, r) == IF o.lib_paths = <<>> THEN <<join(r, "lib")>> ELSE o.lib_paths

\* lines 94-111
SetDirs ==
    /\ pc = "set_dirs"
    /\ lib_paths' = lib_paths_of(opts, root)
    /\ pc' = "find_many"
    /\ UNCHANGED <<opts, root, libIdx, remappings, remappings_txt, project, run_project,
                   output, stdout, result, calls, disk, versionVars, envVars>>

\* lines 114-115: one library path scanned per step, in the order given
FindMany ==
    /\ pc = "find_many"
    /\ libIdx < Len(lib_paths)
    /\ \E found \in {Err("find_many", lib_paths[libIdx + 1])} \cup {Ok(f) : f \in FoundLists} :
          IF found.tag = "Ok"
          THEN /\ Call("find_many", "ok")
               /\ remappings' = remappings \o found.val
               /\ libIdx' = libIdx + 1
               /\ pc' = IF libIdx + 1 = Len(lib_paths) THEN "extend_args" ELSE "find_many"
               /\ UNCHANGED result
          ELSE /\ Call("find_many", "err")
               /\ Abort(Panic("unwrap", found.val))
               /\ UNCHANGED <<remappings, libIdx>>
    /\ UNCHANGED <<opts, root, lib_paths, remappings_txt, project, run_project, output,
                   stdout, disk, versionVars, envVars>>

\* line 118
ExtendArgs ==
    /\ pc = "extend_args"
    /\ remappings' = remappings \o opts.remappings
    /\ pc' = "extend_env"
    /\ UNCHANGED <<opts, root, lib_paths, libIdx, remappings_txt, project, run_project,
                   output, stdout, result, calls, disk, versionVars, envVars>>

\* lines 121-123
ExtendEnv ==
    /\ pc = "extend_env"
    /\ IF opts.remappings_env.tag = "Some"
       THEN LET parsed == remappings_from_newline(opts.remappings_env.val) IN
            IF parsed.tag = "Ok"
            THEN /\ Call("remappings_from_newline(env)", "ok")
                 /\ remappings' = remappings \o parsed.val
                 /\ pc' = "read_txt" /\ UNCHANGED result
            ELSE /\ Call("remappings_from_newline(env)", "err")
                 /\ Abort(parsed)
                 /\ UNCHANGED remappings
       ELSE /\ pc' = "read_txt"
            /\ UNCHANGED <<remappings, result, calls>>
    /\ UNCHANGED <<opts, root, lib_paths, libIdx, remappings_txt, project, run_project,
                   output, stdout, disk, versionVars, envVars>>

\* line 126: read_to_string(root.join("remappings.txt")); any failure of the
\* read (no such file, not readable, not UTF-8) takes the else branch
ReadRemappingsTxt ==
    /\ pc = "read_txt"
    /\ \E read \in {Err("io", <<"remappings.txt">>)} \cup {Ok(t) : t \in TxtTexts} :
          IF read.tag = "Ok"
          THEN /\ Call("read_to_string", "ok")
               /\ remappings_txt' = read
               /\ pc' = "extend_txt"
          ELSE /\ Call("read_to_string", "err")
               /\ remappings_txt' = NoValue
               /\ pc' = "sort"
    /\ UNCHANGED <<opts, root, lib_paths, libIdx, remappings, project, run_project,
                   output, stdout, result, disk, versionVars, envVars>>

\* line 127
ExtendTxt ==
    /\ pc = "extend_txt"
    /\ LET parsed == remappings_from_newline(remappings_txt.val) IN
       IF parsed.tag = "Ok"
       THEN /\ Call("remappings_from_newline(txt)", "ok")
            /\ remappings' = remappings \o parsed.val
            /\ remappings_txt' = NoValue
            /\ pc' = "sort" /\ UNCHANGED result
       ELSE /\ Call("remappings_from_newline(txt)", "err")
            /\ Abort(parsed)
            /\ UNCHANGED <<remappings, remappings_txt>>
    /\ UNCHANGED <<opts, root, lib_paths, libIdx, project, run_project, output, stdout,
                   disk, versionVars, envVars>>

\* lines 139-140
SortDedup ==
    /\ pc = "sort"
    /\ remappings' = dedup(sort_unstable(remappings))
    /\ pc' = "paths_build"
    /\ UNCHANGED <<opts, root, lib_paths, libIdx, remappings_txt, project, run_project,
                   output, stdout, result, calls, disk, versionVars, envVars>>

\* lines 143-150: ProjectPathsConfig::builder()...build()?
PathsConfig ==
    [root |-> root,
     sources |-> contracts_dir(opts, root),
     artifacts |-> artifacts_dir(opts, root),
     remappings |-> IF remappings # <<>> THEN Some(remappings) ELSE NoValue]

\* lines 153-160: Project::builder()...build()?
ProjectOf(paths) ==
    [paths |-> paths,
     allowed_paths |-> <<root>> \o lib_paths,
     auto_detect |-> ~opts.no_auto_detect]

\* lines 143-160: the paths, then the project; either build may fail
BuildProject ==
    /\ pc = "paths_build"
    /\ \E paths_ok \in BOOLEAN, project_ok \in BOOLEAN :
          IF ~paths_ok
          THEN /\ Call("paths_build", "err")
               /\ Abort(Err("io", <<"paths_build">>))
               /\ UNCHANGED project
          ELSE IF ~project_ok
          THEN /\ calls' = calls \o << <<"paths_build", "ok">>, <<"project_build", "err">> >>
               /\ Abort(Err("solc", <<"project_build">>))
               /\ UNCHANGED project
          ELSE /\ calls' = calls \o << <<"paths_build", "ok">>, <<"project_build", "ok">> >>
               /\ project' = Some(ProjectOf(PathsConfig))
               /\ pc' = "cleanup" /\ UNCHANGED result
    /\ UNCHANGED <<opts, root, lib_paths, libIdx, remappings, remappings_txt, run_project,
                   output, stdout, disk, versionVars, envVars>>

\* the cache removed on every build
CleanupAlways(o) == TRUE

\* the cache never removed
CleanupNever(o) == FALSE

\* line 164: if opts.force
CleanupRequested(o) == o.force

\* lines 164-168 and the `?` of line 69: the forced cleanup, then Ok(project)
Cleanup ==
    /\ pc = "cleanup"
    /\ IF CleanupRequested(opts)
       THEN \E outcome \in {"deleted", "failed_intact", "failed_partial"} :
              IF outcome = "deleted"
              THEN /\ Call("cleanup", "ok")
                   /\ disk' = "deleted"
                   /\ run_project' = project
                   /\ pc' = "compile" /\ UNCHANGED result
              ELSE /\ Call("cleanup", "err")
                   /\ disk' = IF outcome = "failed_partial" THEN "partial" ELSE "intact"
                   /\ Abort(Err("io", <<"cleanup">>))
                   /\ UNCHANGED run_project
       ELSE /\ run_project' = project
            /\ pc' = "compile"
            /\ UNCHANGED <<result, calls, disk>>
    /\ UNCHANGED <<opts, root, lib_paths, libIdx, remappings, remappings_txt, project,
                   output, stdout, versionVars, envVars>>

\* line 70: project.compile()?
Compile ==
    /\ pc = "compile"
    /\ \E out \in {"failed", "compiler_errors", "unchanged", "compiled"} :
          IF out = "failed"
          THEN /\ Call("compile", "err")
               /\ Abort(Err("solc", <<"compile">>))
               /\ UNCHANGED output
          ELSE /\ Call("compile", "ok")
               /\ output' = Some(out)
               /\ pc' = "report" /\ UNCHANGED result
    /\ UNCHANGED <<opts, root, lib_paths, libIdx, remappings, remappings_txt, project,
                   run_project, stdout, disk, versionVars, envVars>>

\* lines 71-79
Report ==
    /\ pc = "report"
    /\ IF output.val = "compiler_errors"
       THEN /\ Abort(Err("diagnostics", <<output.val>>))
            /\ UNCHANGED stdout
       ELSE /\ stdout' = Append(stdout, IF output.val = "unchanged"
                                        THEN "no files changed, compilation skippped."
                                        ELSE "success.")
            /\ result' = Ok(output.val)
            /\ pc' = "done"
    /\ UNCHANGED <<opts, root, lib_paths, libIdx, remappings, remappings_txt, project,
                   run_project, output, calls, disk, versionVars, envVars>>

Next ==
    \/ SetRoot \/ Canonicalize \/ SetDirs \/ FindMany \/ ExtendArgs \/ ExtendEnv
    \/ ReadRemappingsTxt \/ ExtendTxt \/ SortDedup \/ BuildProject \/ Cleanup
    \/ Compile \/ Report

Spec == Init /\ [][Next]_vars

(***************************************************************************)
(* Properties of the build                                                 *)
(***************************************************************************)
Range(q) == {q[i] : i \in DOMAIN q}
NoDuplicates(q) == \A i, j \in DOMAIN q : i # j => q[i] # q[j]
Copies(q, x) == Cardinality({i \in DOMAIN q : q[i] = x})
IndexOfCall(name) == CHOOSE i \in DOMAIN calls : calls[i][1] = name
CountCalls(name) == Cardinality({i \in DOMAIN calls : calls[i][1] = name})
\* the remapping table a project carries; none is an empty one
TableOf(p) == IF p.paths.remappings.tag = "Some" THEN p.paths.remappings.val ELSE <<>>
Finished == pc \in {"done", "aborted"}

\* the ascending sequence of the elements of a set of remappings
RECURSIVE SortSet(_)
SortSet(S) ==
    IF S = {} THEN <<>>
    ELSE LET m == CHOOSE x \in S : \A y \in S \ {x} : RemappingLess(x, y)
         IN <<m>> \o SortSet(S \ {m})

\* C1: the remapping sequence handed to the project descriptor holds no two
\* equal elements and holds each distinct collected remapping exactly once:
\* sort + dedup keeps the set of collected remappings, and the project is
\* built from that sequence unchanged.
C1_FinalRemappingsUnique ==
    [][/\ pc = "sort" =>
            /\ NoDuplicates(remappings')
            /\ Range(remappings') = Range(remappings)
            /\ \A x \in Range(remappings) : Copies(remappings', x) = 1
       /\ (pc = "paths_build" /\ project' # NoValue) =>
            /\ TableOf(project'.val) = remappings
            /\ NoDuplicates(TableOf(project'.val))
       /\ pc \in {"paths_build", "cleanup", "compile", "report"} => remappings' = remappings
      ]_vars
C1_Witness ==
    /\ pc = "done"
    /\ opts.remappings = <<R_ab, R_aa>>
    /\ opts.remappings_env = Some(<<"a", "=", "b">>)
    /\ CalledWith("remappings_from_newline(txt)", "ok")
    /\ TableOf(run_project.val) = <<R_aa, R_ab>>

\* C2: the final remapping sequence is the ascending sort (by alias, then
\* by path) of the set of collected remappings, whatever order the sources
\* were merged in: collecting the same entries in reverse, or with any tail
\* of the collection merged before its head, sorts and dedups to the same
\* sequence.
C2_FinalOrderIsSortOfSet ==
    [][pc = "sort" =>
          /\ remappings' = SortSet(Range(remappings))
          /\ \A i \in 1..(Len(remappings') - 1) :
                RemappingLess(remappings'[i], remappings'[i + 1])
          /\ \A k \in 0..Len(remappings) :
                dedup(sort_unstable(SubSeq(remappings, k + 1, Len(remappings))
                                    \o SubSeq(remappings, 1, k))) = remappings'
          /\ dedup(sort_unstable([i \in DOMAIN remappings |->
                                    remappings[Len(remappings) + 1 - i]])) = remappings'
      ]_vars
C2_Witness ==
    /\ project # NoValue
    /\ opts.remappings = <<R_ba>>
    /\ opts.remappings_env # NoValue
    /\ TableOf(project.val) = <<R_aa, R_ab, R_ba>>

\* C3: in a run with the force flag that reaches compilation, the cleanup ran
\* exactly once and succeeded, after the project was built and before
\* compile was called, and never after compile.
C3_ForcedCleanupOnceBeforeCompile ==
    (opts.force /\ Called("compile")) =>
        /\ CountCalls("cleanup") = 1
        /\ CalledWith("cleanup", "ok")
        /\ disk = "deleted"
        /\ CalledWith("project_build", "ok")
        /\ IndexOfCall("project_build") < IndexOfCall("cleanup")
        /\ IndexOfCall("cleanup") < IndexOfCall("compile")
        /\ project # NoValue /\ run_project = project
C3_Witness ==
    /\ opts.force /\ pc = "done" /\ disk = "deleted" /\ result.tag = "Ok"

\* C10: the cleanup is performed only with the force flag set and after every
\* earlier step succeeded: a build without the flag, or one that has not
\* assembled the project, leaves cache and artifacts untouched; when the
\* cleanup fails, its error is returned, no project is, and compile is not
\* called.
C10_CleanupOnlyWhenForcedAndBuilt ==
    /\ Called("cleanup") =>
          /\ opts.force
          /\ project # NoValue
          /\ CalledWith("canonicalize", "ok")
          /\ CalledWith("paths_build", "ok")
          /\ CalledWith("project_build", "ok")
          /\ \A i \in 1..(IndexOfCall("cleanup") - 1) :
                calls[i][2] = "err" => calls[i][1] \in {"find_git_root_path", "read_to_string"}
    /\ (~opts.force \/ project = NoValue) => (disk = "intact" /\ ~Called("cleanup"))
    /\ CalledWith("cleanup", "err") =>
          /\ result = Err("io", <<"cleanup">>)
          /\ pc = "aborted"
          /\ run_project = NoValue
          /\ ~Called("compile")
C10_Witness ==
    /\ result = Err("io", <<"cleanup">>) /\ disk = "partial" /\ run_project = NoValue

\* the positions of the non-empty lines of a text that are no remapping
BadLines(text) ==
    LET ls == split_newline(text) IN
    {i \in DOMAIN ls : ls[i] # <<>> /\ Remapping_from_str(ls[i]).tag = "Err"}
\* its first such line
FirstBadLine(text) ==
    LET ls == split_newline(text)
        i == CHOOSE j \in BadLines(text) : \A k \in BadLines(text) : j <= k
    IN ls[i]
\* the number of its non-empty lines
NonEmptyLines(text) ==
    LET ls == split_newline(text) IN Cardinality({i \in DOMAIN ls : ls[i] # <<>>})
EnvIsBad == opts.remappings_env.tag = "Some" /\ BadLines(opts.remappings_env.val) # {}

\* C6 as stated: a build whose environment remapping text holds a non-empty
\* line that is no remapping ends with the remapping parse failure and
\* without a project (stated here for the builds that chose a root).
C6_AsStated ==
    (Finished /\ EnvIsBad /\ root # <<>>) =>
        /\ result.tag = "Panic" /\ result.kind = ParseMsg
        /\ run_project = NoValue

\* what a step that parses `text` does to the build
ParseStepEffect(text, next) ==
    IF BadLines(text) # {}
    THEN /\ pc' = "aborted"
         /\ result' = Panic(ParseMsg, FirstBadLine(text))
         /\ project' = NoValue /\ run_project' = NoValue
         /\ remappings' = remappings
    ELSE /\ pc' = next
         /\ result' = NoValue
         /\ Len(remappings') = Len(remappings) + NonEmptyLines(text)
         /\ SubSeq(remappings', 1, Len(remappings)) = remappings

\* C6 (amended): when the build reaches the parse of the environment
\* remapping text, or of a remappings.txt that was read, and the text holds
\* a non-empty line that is no remapping, the build stops there with the
\* parse failure of the first such line and without a project; a build with
\* such an environment text never returns a project nor calls compile,
\* whichever step fails first; empty lines alone never fail a build and add
\* no entry.
C6_ParseFailureAborts ==
    [][/\ (pc = "extend_env" /\ opts.remappings_env.tag = "Some") =>
            ParseStepEffect(opts.remappings_env.val, "read_txt")
       /\ pc = "extend_txt" => ParseStepEffect(remappings_txt.val, "sort")
       /\ EnvIsBad => (Finished' => result'.tag \in {"Err", "Panic"})
       /\ EnvIsBad => (run_project' = NoValue /\ project' = NoValue /\ ~Called("compile")')
      ]_vars
C6_Witness ==
    /\ pc = "aborted"
    /\ opts.remappings_env = Some(<<"a", "=", "b", "\n", "b">>)
    /\ CalledWith("remappings_from_newline(env)", "err")
    /\ result = Panic(ParseMsg, <<"b">>)
    /\ run_project = NoValue

\* the root before canonicalization that the precedence of lines 89-91 names
ExpectedRawRoot ==
    IF opts.root.tag = "Some" THEN opts.root.val
    ELSE IF CalledWith("find_git_root_path", "ok") THEN GitRoot ELSE Cwd

StepRank(name) ==
    CASE name = "find_git_root_path" -> 1
      [] name = "current_dir" -> 2
      [] name = "canonicalize" -> 3
      [] name = "find_many" -> 4
      [] name = "remappings_from_newline(env)" -> 5
      [] name = "read_to_string" -> 6
      [] name = "remappings_from_newline(txt)" -> 7
      [] name = "paths_build" -> 8
      [] name = "project_build" -> 9
      [] name = "cleanup" -> 10
      [] name = "compile" -> 11
\* the failures try_from recovers from: no git root, no remappings.txt read
Recovered(name) == name \in {"find_git_root_path", "read_to_string"}
\* the error a failing step surfaces
IsErrorOf(r, name) ==
    CASE name = "current_dir" -> r = Panic("unwrap", <<"current_dir">>)
      [] name = "canonicalize" -> r = Err("io", <<"canonicalize">>)
      [] name = "find_many" ->
            r = Panic("unwrap", lib_paths[CountCalls("find_many")])
      [] name = "remappings_from_newline(env)" ->
            r = Panic(ParseMsg, FirstBadLine(opts.remappings_env.val))
      [] name = "remappings_from_newline(txt)" ->
            r = Panic(ParseMsg, FirstBadLine(remappings_txt.val))
      [] name = "paths_build" -> r = Err("io", <<"paths_build">>)
      [] name = "project_build" -> r = Err("solc", <<"project_build">>)
      [] name = "cleanup" -> r = Err("io", <<"cleanup">>)
      [] name = "compile" -> r = Err("solc", <<"compile">>)

\* C9: the steps run in the order of the pipeline, the first step that fails
\* fatally is the last step that runs, and the one error surfaced is that
\* step's: the first library path whose scan fails, the first line that is
\* no remapping.
C9_FirstFailureWins ==
    /\ \A i, j \in DOMAIN calls :
          i < j => \/ StepRank(calls[i][1]) < StepRank(calls[j][1])
                   \/ calls[i][1] = "find_many" /\ calls[j][1] = "find_many"
    /\ \A i \in DOMAIN calls :
          (calls[i][2] = "err" /\ ~Recovered(calls[i][1])) =>
              /\ i = Len(calls)
              /\ pc = "aborted"
              /\ IsErrorOf(result, calls[i][1])
              /\ run_project = NoValue \/ calls[i][1] = "compile"
    /\ (pc = "aborted" /\ result # Err("diagnostics", <<"compiler_errors">>)) =>
          /\ calls # <<>>
          /\ calls[Len(calls)][2] = "err" /\ ~Recovered(calls[Len(calls)][1])
    /\ pc # "aborted" => result.tag \in {"None", "Ok"}
C9_Witness ==
    /\ opts.remappings_env = Some(<<"b", "\n", "a">>)
    /\ opts.force
    /\ CountCalls("find_many") = 2
    /\ result = Panic(ParseMsg, <<"b">>)

=============================================================================
